---- MODULE Spec2Model ----
(***************************************************************************)
(* Model of the Discord quiz bot (src/bot.py): the quiz catalog, the       *)
(* registry of active quizzes by channel, the Quiz objects with their vote *)
(* ledger, and the coroutines (slash commands, button callbacks) that      *)
(* mutate them.  A coroutine runs atomically from one await to the next;   *)
(* each action below is one such segment.  Platform sends are taken to     *)
(* succeed; the fetch/edit of the previous question message and the edit   *)
(* of the vote-counter message may fail.  A command that is refused        *)
(* changes nothing: its step leaves every variable as it is and its reply  *)
(* is given by the command's ...Reply operator.                            *)
(***************************************************************************)
EXTENDS Integers, Sequences, FiniteSets, TLC

VARIABLES
  quiz_data,   \* the catalog: quiz name -> quiz
  quiz_file,   \* quiz_data.json
  quizzes,     \* the registry: channel -> the Quiz running there
  sessions,    \* the Quiz objects constructed so far, by identity
  controls,    \* the question messages whose buttons users can click
  procs,       \* the coroutines suspended at an await
  out,         \* what the last step sent or raised
  ops,         \* commands and clicks taken up so far
  limit        \* how many coroutines may be suspended, how many ops taken

vars == <<quiz_data, quiz_file, quizzes, sessions, controls, procs, out, ops, limit>>

-----------------------------------------------------------------------------
(* Bounds of the model *)

\* coroutines suspended at an await at the same time
MaxProcs == 2
\* commands and clicks the bot takes up in one behaviour (refused commands,
\* uploads and force_quit apart), when coroutines interleave
MaxOps == 3
\* the same when every coroutine runs to its end before the next starts
MaxSeqOps == 4

(* Program constants *)
MAX_OPTION_LENGTH == 15

-----------------------------------------------------------------------------
(* The environment: channels, users, quiz names, uploads *)

Channels == {1}
Users == {"u1", "u2"}
\* users with the administrator / manage_messages guild permission
Administrators == {"u1"}
ManageMessages == {"u1"}
OwnerId == "u1"

\* the names given to /start_quiz
QuizNames == {"science", "math", "geography"}

\* the absent values (Python None) of integer-valued fields
NoSession == 0
NoMessage == -1

\* quiz "science" of the spec's scenario: two questions with options Yes, No
ScienceQuiz == [questions |-> << [question |-> "q1", options |-> <<"Yes", "No">>],
                                 [question |-> "q2", options |-> <<"Yes", "No">>] >>]
\* its replacement: the second question has other options than the first
ScienceQuiz2 == [questions |-> << [question |-> "q1", options |-> <<"Yes", "No">>],
                                  [question |-> "q2", options |-> <<"A", "B">>] >>]
\* a one-question quiz whose question has a single option
ShortQuiz == [questions |-> << [question |-> "s1", options |-> <<"Yes">>] >>]

\* a catalog (dict[str, QuizData]) is a function on the names it holds;
\* quiz_data.json holds two quizzes when the bot starts
InitialCatalog == [n \in {"science", "math"} |->
                     IF n = "science" THEN ScienceQuiz ELSE ShortQuiz]

\* attachments a user may send with upload_quiz: kind, and for a JSON object
\* its items in document order
Attachments ==
  { [kind |-> "none",    items |-> <<>>],
    [kind |-> "notjson", items |-> <<>>],
    [kind |-> "invalid", items |-> <<>>],
    [kind |-> "list",    items |-> <<>>],
    [kind |-> "object",  items |-> << <<"science", ScienceQuiz2>>, <<"history", ShortQuiz>> >>] }

-----------------------------------------------------------------------------
(* Python dict helpers *)

\* d[k] = v on a dict modelled as a function
DictSet(d, k, v) == [x \in DOMAIN d \cup {k} |-> IF x = k THEN v ELSE d[x]]

\* d.pop(k)
DictPop(d, k) == [x \in DOMAIN d \ {k} |-> d[x]]

\* answer_votes is an insertion-ordered dict: a sequence of [option, count]
HasKey(av, label) == \E i \in 1..Len(av) : av[i].option = label

\* answer_votes.get(label, 0)
Get(av, label) ==
  IF HasKey(av, label)
    THEN av[CHOOSE i \in 1..Len(av) : av[i].option = label].count
    ELSE 0

\* answer_votes[label] = n : in place for an existing key, appended otherwise
Put(av, label, n) ==
  IF HasKey(av, label)
    THEN [i \in 1..Len(av) |-> IF av[i].option = label
                                 THEN [option |-> label, count |-> n]
                                 ELSE av[i]]
    ELSE Append(av, [option |-> label, count |-> n])

RECURSIVE SumVotes(_)
\* sum(answer_votes.values())
SumVotes(av) == IF av = <<>> THEN 0 ELSE av[1].count + SumVotes(Tail(av))

RECURSIVE ZeroVotes(_)
\* {option: 0 for option in options}
ZeroVotes(options) ==
  IF options = <<>> THEN <<>>
  ELSE Put(ZeroVotes(SubSeq(options, 1, Len(options) - 1)), options[Len(options)], 0)

-----------------------------------------------------------------------------
(* Quiz objects *)

\* no View stored yet (current_view is None)
NoView == [id |-> NoMessage, options |-> <<>>, disabled |-> FALSE]

\* get_current_question's None
NoQuestion == [question |-> "", options |-> <<>>]

NoUserVotes == [u \in {} |-> {}]

\* Quiz.__init__
NewQuiz(quiz_name, quiz_starter_id, allow_multiple_answers) ==
  [ quiz_name              |-> quiz_name,
    quiz_starter_id        |-> quiz_starter_id,
    current_question_index |-> -1,
    user_votes             |-> NoUserVotes,
    answer_votes           |-> <<>>,
    allow_multiple_answers |-> allow_multiple_answers,
    current_view           |-> NoView,
    current_question_votes |-> 0,
    votes_message          |-> NoMessage,
    last_message_id        |-> NoMessage ]

\* len(quiz_data[quiz_name]["questions"])
NumQuestions(quiz_name) == Len(quiz_data[quiz_name].questions)

\* Quiz.get_current_question; a negative index counts from the end of the list
GetCurrentQuestion(q) ==
  LET qs == quiz_data[q.quiz_name].questions
      i  == q.current_question_index
  IN IF i < Len(qs)
       THEN (IF i >= 0 THEN qs[i + 1] ELSE qs[Len(qs) + i + 1])
       ELSE NoQuestion

\* QuizView.__init__ : one enabled button per option
QuizView(id, options) == [id |-> id, options |-> options, disabled |-> FALSE]

-----------------------------------------------------------------------------
(* Coroutines suspended at an await, and what the last step emitted *)

Procs == 1..MaxProcs

\* the locals of a coroutine: the interaction's channel and user, its Quiz
\* (quiz_instance), a button's label, a message (previous_message, message),
\* the options of the View it made, and for next_question the results table
\* it built (result_table) with the question index it built it at
Idle == [kind |-> "idle", pc |-> "idle", ch |-> 0, user |-> "", sid |-> NoSession,
         label |-> "", mid |-> NoMessage, options |-> <<>>, rows |-> <<>>, index |-> -1]

Coroutine(kind, ch, user, sid) ==
  [kind |-> kind, pc |-> "run", ch |-> ch, user |-> user, sid |-> sid,
   label |-> "", mid |-> NoMessage, options |-> <<>>, rows |-> <<>>, index |-> -1]

\* the event loop can take a coroutine more
HasFreeProc == \E p \in 1..limit.procs : procs[p] = Idle
FreeProc == CHOOSE p \in Procs : procs[p] = Idle /\ \A r \in Procs : r < p => procs[r] # Idle

\* a command or click is taken up
TakeUp == ops < limit.ops /\ ops' = ops + 1 /\ UNCHANGED limit

\* the coroutine in slot p after a segment that ends at pc (returns at "idle")
Resume(p, r, pc) ==
  [procs EXCEPT ![p] = IF pc = "idle" THEN Idle ELSE [r EXCEPT !.pc = pc]]

\* what a step of coroutine r sends (a message, the rows of a results table)
\* or raises
Emit(op, r, reply, rows) ==
  [op |-> op, sid |-> r.sid, user |-> r.user, reply |-> reply, rows |-> rows]

Init ==
  /\ quiz_data = InitialCatalog
  /\ quiz_file = InitialCatalog
  /\ quizzes = [c \in Channels |-> NoSession]
  /\ sessions = <<>>
  /\ controls = {}
  /\ procs = [p \in Procs |-> Idle]
  /\ out = Emit("init", Idle, "", <<>>)
  /\ ops = 0
  /\ limit = [procs |-> MaxProcs, ops |-> MaxOps]

\* the bot started with an event loop that runs one coroutine at a time
InitSeq ==
  /\ quiz_data = InitialCatalog
  /\ quiz_file = InitialCatalog
  /\ quizzes = [c \in Channels |-> NoSession]
  /\ sessions = <<>>
  /\ controls = {}
  /\ procs = [p \in Procs |-> Idle]
  /\ out = Emit("init", Idle, "", <<>>)
  /\ ops = 0
  /\ limit = [procs |-> 1, ops |-> MaxSeqOps]

-----------------------------------------------------------------------------
(* send_question *)

\* the synchronous part of send_question on Quiz q, up to its first await:
\* the Quiz afterwards, where the coroutine is suspended, and what it sends
SendQuestion(q) ==
  LET q1 == [q EXCEPT !.current_question_index = @ + 1]
      question_data == GetCurrentQuestion(q1)
      options == question_data.options
  IN IF q1.current_question_index >= NumQuestions(q1.quiz_name)
       THEN [quiz |-> q1, pc |-> "end_send", reply |-> "The quiz has ended!"]
     ELSE IF question_data = NoQuestion
       THEN [quiz |-> q1, pc |-> "idle", reply |-> "End of questions"]
     ELSE IF Len(options) < 2
       THEN [quiz |-> q1, pc |-> "idle", reply |-> "You need at least two options."]
     ELSE [quiz |-> [q1 EXCEPT !.answer_votes = ZeroVotes(options),
                               !.current_question_votes = 0,
                               !.current_view = QuizView(q1.current_question_index, options)],
           pc |-> "q_send", reply |-> "Question"]

\* the coroutine r once send_question, called on Quiz q, is suspended: the
\* message it is sending gets a fresh id, modelled by the question index
InSendQuestion(r, q) ==
  LET s == SendQuestion(q)
  IN IF s.pc = "q_send"
       THEN [r EXCEPT !.pc = s.pc,
                      !.mid = s.quiz.current_question_index,
                      !.options = s.quiz.current_view.options]
       ELSE [r EXCEPT !.pc = s.pc, !.mid = NoMessage, !.options = <<>>]

\* send_question called by the coroutine r of slot p
CallSendQuestion(p, r) ==
  LET q == sessions[r.sid]
  IN /\ sessions' = [sessions EXCEPT ![r.sid] = SendQuestion(q).quiz]
     /\ procs' = Resume(p, InSendQuestion(r, q), SendQuestion(q).pc)
     /\ out' = Emit("send_question", r, SendQuestion(q).reply, <<>>)

\* the question message is out: its buttons can be clicked, its id is kept,
\* and the "Votes: 0" message is sent
QuestionSent(p) ==
  LET r == procs[p]
  IN /\ r.pc = "q_send"
     /\ sessions' = [sessions EXCEPT ![r.sid].last_message_id = r.mid]
     /\ controls' = controls \cup {[sid |-> r.sid, mid |-> r.mid, options |-> r.options]}
     /\ procs' = Resume(p, r, "v_send")
     /\ out' = Emit("question_sent", r, "Votes: 0", <<>>)
     /\ UNCHANGED <<ops, limit, quiz_data, quiz_file, quizzes>>

\* the "Votes: 0" message is out and becomes the Quiz's votes_message
VotesSent(p) ==
  LET r == procs[p]
  IN /\ r.pc = "v_send"
     /\ sessions' = [sessions EXCEPT ![r.sid].votes_message = r.mid]
     /\ procs' = Resume(p, r, "idle")
     /\ out' = Emit("votes_sent", r, "", <<>>)
     /\ UNCHANGED <<ops, limit, quiz_data, quiz_file, quizzes, controls>>

\* a send_question that forgets to delete the entry
DelNothing(ch) == quizzes

\* del quizzes[interaction.channel_id] : the entry of the key
Del(ch) == [quizzes EXCEPT ![ch] = NoSession]

\* "The quiz has ended!" is out: the channel's entry is deleted, whichever
\* Quiz it holds; a missing key raises KeyError
EndSent(p) ==
  LET r == procs[p]
  IN /\ r.pc = "end_send"
     /\ quizzes' = Del(r.ch)
     /\ procs' = Resume(p, r, "idle")
     /\ out' = Emit("quiz_ended", r, IF quizzes[r.ch] # NoSession THEN "" ELSE "raise KeyError", <<>>)
     /\ UNCHANGED <<ops, limit, quiz_data, quiz_file, sessions, controls>>

-----------------------------------------------------------------------------
(* /start_quiz *)

\* quiz_name not in quiz_data
QuizNotFound(quiz_name) == quiz_name \notin DOMAIN quiz_data

\* a start_quiz that never finds the channel taken
QuizRunningNever(ch) == FALSE

\* interaction.channel_id in quizzes
QuizRunning(ch) == quizzes[ch] # NoSession

\* what start_quiz answers first
StartQuizReply(ch, user, quiz_name, multiple_answers) ==
  IF QuizNotFound(quiz_name) THEN "Quiz not found."
  ELSE IF QuizRunning(ch) THEN "A quiz is already running in this channel."
  ELSE SendQuestion(NewQuiz(quiz_name, user, multiple_answers)).reply

\* start_quiz up to its first await: the two refusals, else the new Quiz is
\* registered and send_question runs on it
StartQuiz(ch, user, quiz_name, multiple_answers) ==
  IF QuizNotFound(quiz_name) \/ QuizRunning(ch)
    THEN UNCHANGED vars
    ELSE
      LET sid == Len(sessions) + 1
          q   == NewQuiz(quiz_name, user, multiple_answers)
          r   == Coroutine("start_quiz", ch, user, sid)
      IN /\ HasFreeProc
         /\ TakeUp
         /\ quizzes' = [quizzes EXCEPT ![ch] = sid]
         /\ sessions' = Append(sessions, SendQuestion(q).quiz)
         /\ procs' = Resume(FreeProc, InSendQuestion(r, q), SendQuestion(q).pc)
         /\ out' = Emit("start_quiz", r, SendQuestion(q).reply, <<>>)
         /\ UNCHANGED <<quiz_data, quiz_file, controls>>

-----------------------------------------------------------------------------
(* /next_question *)

\* a label as the results table shows it: long options are truncated
DisplayOption(option) ==
  IF Len(option) > MAX_OPTION_LENGTH
    THEN SubSeq(option, 1, MAX_OPTION_LENGTH - 3) \o "..."
    ELSE option

\* vote_count / total_votes * 100 to two decimals, in hundredths of a percent
Percentage(vote_count, total_votes) ==
  IF total_votes > 0
    THEN (2 * 10000 * vote_count + total_votes) \div (2 * total_votes)
    ELSE 0

\* the rows of the results table: one per key of answer_votes, in dict order
ResultTable(answer_votes) ==
  LET total_votes == SumVotes(answer_votes)
  IN [i \in 1..Len(answer_votes) |->
        [option  |-> DisplayOption(answer_votes[i].option),
         count   |-> answer_votes[i].count,
         percent |-> Percentage(answer_votes[i].count, total_votes)]]

\* a next_question that lets anyone advance
NotStarterNever(user, q) == FALSE

\* interaction.user.id != quiz_instance.quiz_starter_id
NotStarter(user, q) == user # q.quiz_starter_id

\* the answer of next_question on a channel without a Quiz (the source puts
\* the command in backquotes, which a TLA+ string cannot hold)
NoQuizRunning ==
  "No quiz is currently running in this channel. "
    \o "Use !start_quiz <quiz_name> to start a quiz."

\* what next_question answers first: a refusal, or nothing until the
\* previous message is fetched, or the results
NextQuestionReply(ch, user) ==
  IF ~QuizRunning(ch) THEN NoQuizRunning
  ELSE IF NotStarter(user, sessions[quizzes[ch]])
    THEN "Only the quiz starter can move to the next question."
  ELSE IF sessions[quizzes[ch]].last_message_id # NoMessage THEN ""
  ELSE "Results"

\* next_question from "Display results" on, for the coroutine r in slot p:
\* the table is sent if a question has been asked, else send_question runs
ShowResults(p, r) ==
  LET q == sessions[r.sid]
  IN IF q.current_question_index >= 0
       THEN /\ out' = Emit("results", r, "Results", ResultTable(q.answer_votes))
            /\ procs' = Resume(p, [r EXCEPT !.rows = ResultTable(q.answer_votes),
                                            !.index = q.current_question_index],
                               "res_send")
            /\ UNCHANGED sessions
       ELSE CallSendQuestion(p, r)

\* next_question up to its first await
NextQuestion(ch, user) ==
  IF ~QuizRunning(ch) THEN UNCHANGED vars
  ELSE IF NotStarter(user, sessions[quizzes[ch]]) THEN UNCHANGED vars
  ELSE
    LET r == Coroutine("next_question", ch, user, quizzes[ch])
        last_message_id == sessions[quizzes[ch]].last_message_id
    IN /\ HasFreeProc
       /\ TakeUp
       /\ IF last_message_id # NoMessage
            THEN \* channel.fetch_message(last_message_id) is awaited
                 /\ procs' = Resume(FreeProc, [r EXCEPT !.mid = last_message_id], "fetch")
                 /\ out' = Emit("next_question", r, "", <<>>)
                 /\ UNCHANGED sessions
            ELSE ShowResults(FreeProc, r)
       /\ UNCHANGED <<quiz_data, quiz_file, quizzes, controls>>

\* how the platform answers fetch_message and message.edit
Outcomes == {"ok", "NotFound", "Forbidden", "HTTPException"}

\* the except clauses of the try block, for the exception exc raised in the
\* coroutine r of slot p: a warning and on, or an error message and return
Except(p, r, exc) ==
  /\ out' = Emit("disable_buttons", r,
                 CASE exc = "NotFound" ->
                        "Could not find the previous message to disable buttons."
                   [] exc = "Forbidden" ->
                        "I don't have permission to edit the previous message."
                   [] OTHER ->
                        "Unhandled server error, please contact the admin if issue persists",
                 <<>>)
  /\ procs' = Resume(p, r, IF exc \in {"NotFound", "Forbidden"} THEN "warn_send" ELSE "idle")

\* the buttons users can click once message mid of Quiz sid shows them
\* disabled, or is gone
Without(sid, mid) == {c \in controls : ~(c.sid = sid /\ c.mid = mid)}

\* fetch_message returned or raised: the buttons of the current View are
\* marked disabled and the edit of the fetched message is awaited
FetchDone(p, outcome) ==
  LET r == procs[p]
      q == sessions[r.sid]
  IN /\ r.pc = "fetch"
     /\ IF outcome = "ok" /\ q.current_view # NoView
          THEN /\ sessions' = [sessions EXCEPT ![r.sid].current_view.disabled = TRUE]
               /\ procs' = Resume(p, r, "edit")
               /\ out' = Emit("disable_buttons", r, "", <<>>)
               /\ UNCHANGED controls
          ELSE /\ Except(p, r, IF outcome = "ok" THEN "AssertionError" ELSE outcome)
               /\ controls' = IF outcome = "NotFound" THEN Without(r.sid, r.mid) ELSE controls
               /\ UNCHANGED sessions
     /\ UNCHANGED <<ops, limit, quiz_data, quiz_file, quizzes>>

\* previous_message.edit returned or raised: on success the message shows
\* disabled buttons and next_question goes on to the results
EditDone(p, outcome) ==
  LET r == procs[p]
  IN /\ r.pc = "edit"
     /\ IF outcome = "ok"
          THEN /\ controls' = Without(r.sid, r.mid)
               /\ ShowResults(p, r)
          ELSE /\ Except(p, r, outcome)
               /\ controls' = IF outcome = "NotFound" THEN Without(r.sid, r.mid) ELSE controls
               /\ UNCHANGED sessions
     /\ UNCHANGED <<ops, limit, quiz_data, quiz_file, quizzes>>

\* the warning of a NotFound or Forbidden is out
WarnSent(p) ==
  LET r == procs[p]
  IN /\ r.pc = "warn_send"
     /\ ShowResults(p, r)
     /\ UNCHANGED <<ops, limit, quiz_data, quiz_file, quizzes, controls>>

\* the results table is out: send_question runs to its first await
ResultsSent(p) ==
  LET r == procs[p]
  IN /\ r.pc = "res_send"
     /\ CallSendQuestion(p, [r EXCEPT !.rows = <<>>, !.index = -1])
     /\ UNCHANGED <<ops, limit, quiz_data, quiz_file, quizzes, controls>>

-----------------------------------------------------------------------------
(* QuizButton.callback *)

\* a callback that counts every click into the total instead of summing
RecordVoteCounting(q, user_id, label) ==
  LET uv == q.user_votes
      av == q.answer_votes
      q1 == IF q.allow_multiple_answers
              THEN LET uv1 == IF user_id \notin DOMAIN uv THEN DictSet(uv, user_id, {}) ELSE uv
                   IN IF label \in uv1[user_id]
                        THEN [q EXCEPT !.user_votes = DictSet(uv1, user_id, uv1[user_id] \ {label}),
                                       !.answer_votes = Put(av, label, Get(av, label) - 1)]
                        ELSE [q EXCEPT !.user_votes = DictSet(uv1, user_id, uv1[user_id] \cup {label}),
                                       !.answer_votes = Put(av, label, Get(av, label) + 1)]
              ELSE LET uv1 == IF user_id \in DOMAIN uv THEN DictPop(uv, user_id) ELSE uv
                   IN [q EXCEPT !.user_votes = DictSet(uv1, user_id, {label}),
                                !.answer_votes = Put(av, label, Get(av, label) + 1)]
  IN [q1 EXCEPT !.current_question_votes = q.current_question_votes + 1]

\* the ledger of Quiz q after the button `label` is handled for user_id:
\* a toggle when multiple answers are allowed, else the user's one vote is
\* replaced; then the total is recomputed from the counts
RecordVote(q, user_id, label) ==
  LET uv == q.user_votes
      av == q.answer_votes
      q1 == IF q.allow_multiple_answers
              THEN LET uv1 == IF user_id \notin DOMAIN uv THEN DictSet(uv, user_id, {}) ELSE uv
                   IN IF label \in uv1[user_id]
                        THEN [q EXCEPT !.user_votes = DictSet(uv1, user_id, uv1[user_id] \ {label}),
                                       !.answer_votes = Put(av, label, Get(av, label) - 1)]
                        ELSE [q EXCEPT !.user_votes = DictSet(uv1, user_id, uv1[user_id] \cup {label}),
                                       !.answer_votes = Put(av, label, Get(av, label) + 1)]
              ELSE LET uv1 == IF user_id \in DOMAIN uv THEN DictPop(uv, user_id) ELSE uv
                   IN [q EXCEPT !.user_votes = DictSet(uv1, user_id, {label}),
                                !.answer_votes = Put(av, label, Get(av, label) + 1)]
  IN [q1 EXCEPT !.current_question_votes = SumVotes(q1.answer_votes)]

\* a user clicks button i of a message whose buttons are enabled: the
\* callback of that View's button starts and awaits the deferral
Click(c, i, user) ==
  /\ c \in controls
  /\ i \in 1..Len(c.options)
  /\ HasFreeProc
  /\ TakeUp
  /\ procs' = Resume(FreeProc,
                     [Coroutine("callback", 0, user, c.sid) EXCEPT !.label = c.options[i],
                                                                   !.mid = c.mid],
                     "defer")
  /\ out' = Emit("click", procs'[FreeProc], "", <<>>)
  /\ UNCHANGED <<quiz_data, quiz_file, quizzes, sessions, controls>>

\* the callback after the deferral: the vote is recorded in the View's Quiz,
\* then the votes message is edited if there is one, else the user is told
VoteApply(p) ==
  LET r == procs[p]
      q == RecordVote(sessions[r.sid], r.user, r.label)
  IN /\ r.pc = "defer"
     /\ sessions' = [sessions EXCEPT ![r.sid] = q]
     /\ IF q.votes_message # NoMessage
          THEN /\ procs' = Resume(p, r, "votes_edit")
               /\ out' = Emit("vote", r, "", <<>>)
          ELSE /\ procs' = Resume(p, r, "idle")
               /\ out' = Emit("vote", r, "You voted for " \o r.label, <<>>)
     /\ UNCHANGED <<ops, limit, quiz_data, quiz_file, quizzes, controls>>

\* votes_message.edit returned, and the user is told, or it raised, and the
\* exception leaves the callback
VoteEditDone(p, outcome) ==
  LET r == procs[p]
  IN /\ r.pc = "votes_edit"
     /\ procs' = Resume(p, r, "idle")
     /\ out' = Emit("votes_edit", r,
                    IF outcome = "ok" THEN "You voted for " \o r.label
                                      ELSE "raise " \o outcome, <<>>)
     /\ UNCHANGED <<ops, limit, quiz_data, quiz_file, quizzes, sessions, controls>>

-----------------------------------------------------------------------------
(* !upload_quiz *)

\* an upload that takes the payload for the whole catalog
MergeReplacing(catalog, items) ==
  [n \in {items[i][1] : i \in 1..Len(items)} |->
     items[CHOOSE i \in 1..Len(items) : items[i][1] = n][2]]

RECURSIVE Merge(_, _)
\* for quiz_name, quiz_content in new_quiz_data.items(): quiz_data[...] = ...
Merge(catalog, items) ==
  IF items = <<>> THEN catalog
  ELSE Merge(DictSet(catalog, items[1][1], items[1][2]), Tail(items))

\* what upload_quiz answers, or the exception it ends with
UploadQuizReply(att) ==
  CASE att.kind = "none"    -> "Please attach a JSON file with the quiz data."
    [] att.kind = "notjson" -> "The file must be a JSON file."
    [] att.kind = "invalid" -> "Invalid JSON file."
    [] att.kind = "list"    -> "raise AttributeError"
    [] OTHER                -> "Quiz data uploaded and updated successfully!"

\* upload_quiz: the attachment checks, the parse, the merge and the save
UploadQuiz(user, att) ==
  /\ IF att.kind = "object"
       THEN /\ quiz_data' = Merge(quiz_data, att.items)
            /\ quiz_file' = quiz_data'
       ELSE UNCHANGED <<quiz_data, quiz_file>>
  /\ UNCHANGED <<ops, limit, quizzes, sessions, controls, procs, out>>

-----------------------------------------------------------------------------
(* /force_quit *)

\* has_permission(author, permission)
HasPermission(author, permission) ==
  IF permission = "manage_messages" THEN author \in ManageMessages
  ELSE IF permission = "administrator" THEN author \in Administrators
  ELSE FALSE

\* what force_quit answers
ForceQuitReply(ch, user) ==
  IF ~HasPermission(user, "manage_messages") /\ user # OwnerId
    THEN "You do not have permission to force quit quizzes in this channel."
  ELSE IF QuizRunning(ch) THEN "All quizzes in this channel have been forcefully ended."
  ELSE "No active quiz in this channel."

ForceQuit(ch, user) ==
  /\ IF ~HasPermission(user, "manage_messages") /\ user # OwnerId
       THEN UNCHANGED quizzes
     ELSE IF QuizRunning(ch)
       THEN quizzes' = Del(ch)
       ELSE UNCHANGED quizzes
  /\ UNCHANGED <<ops, limit, quiz_data, quiz_file, sessions, controls, procs, out>>

-----------------------------------------------------------------------------
(* The bot: any command or click may arrive, any suspended coroutine resume *)

Next ==
  \/ \E ch \in Channels, user \in Users, quiz_name \in QuizNames, multiple_answers \in BOOLEAN :
       StartQuiz(ch, user, quiz_name, multiple_answers)
  \/ \E ch \in Channels, user \in Users : NextQuestion(ch, user)
  \/ \E p \in Procs, outcome \in Outcomes : FetchDone(p, outcome)
  \/ \E p \in Procs, outcome \in Outcomes : EditDone(p, outcome)
  \/ \E p \in Procs : WarnSent(p)
  \/ \E p \in Procs : ResultsSent(p)
  \/ \E p \in Procs : QuestionSent(p)
  \/ \E p \in Procs : VotesSent(p)
  \/ \E p \in Procs : EndSent(p)
  \/ \E c \in controls, i \in 1..2, user \in Users : Click(c, i, user)
  \/ \E p \in Procs : VoteApply(p)
  \/ \E p \in Procs, outcome \in {"ok", "HTTPException"} : VoteEditDone(p, outcome)
  \/ \E user \in Users, att \in Attachments : UploadQuiz(user, att)
  \/ \E ch \in Channels, user \in Users : ForceQuit(ch, user)

Spec == Init /\ [][Next]_vars

SpecSeq == InitSeq /\ [][Next]_vars

-----------------------------------------------------------------------------
(* What the claims speak of *)

SessionIds == 1..Len(sessions)

\* the Quiz is the registry's entry of some channel
Registered(sid) == \E ch \in Channels : quizzes[ch] = sid

\* the sum of the counts of a ledger
Total(av) ==
  LET sum[n \in 0..Len(av)] == IF n = 0 THEN 0 ELSE sum[n - 1] + av[n].count
  IN sum[Len(av)]

\* the voters of a Quiz who have a selection
Voting(q) == {u \in DOMAIN q.user_votes : q.user_votes[u] # {}}

\* the coroutine of slot p leaves the await `pc` in this step
Leaves(p, pc) == procs[p].pc = pc /\ procs'[p] # procs[p]

\* the coroutine of slot p reaches the await `pc` in this step
Reaches(p, pc) == procs'[p].pc = pc /\ procs'[p] # procs[p]

-----------------------------------------------------------------------------
(* The claims *)

\* C1: with single answers, in every Quiz the counts of the options sum to
\* the number of voters who have a selection, and no count is negative.
C1_SingleChoiceLedger ==
  \A sid \in SessionIds :
    LET q == sessions[sid]
    IN ~q.allow_multiple_answers =>
         /\ Total(q.answer_votes) = Cardinality(Voting(q))
         /\ \A i \in 1..Len(q.answer_votes) : q.answer_votes[i].count >= 0

\* C2: in either mode, after any votes and advances, no count of any option
\* of any Quiz is negative.
C2_CountsNonNegative ==
  \A sid \in SessionIds :
    \A i \in 1..Len(sessions[sid].answer_votes) : sessions[sid].answer_votes[i].count >= 0

\* C3: wherever a coroutine is suspended or has ended, the cached total
\* current_question_votes of every Quiz is the sum of its answer_votes.
C3_TotalIsSum ==
  \A sid \in SessionIds :
    sessions[sid].current_question_votes = Total(sessions[sid].answer_votes)

\* a vote was recorded in a ledger that an advance had reset
C3_Witness ==
  \E sid \in SessionIds :
    /\ sessions[sid].current_question_index >= 1
    /\ sessions[sid].current_question_votes >= 1
    /\ out.op = "vote"

\* C4 as stated: on a channel that has a Quiz, every start_quiz answers that
\* a quiz is already running.
C4_AlwaysAlreadyRunning ==
  \A ch \in Channels, user \in Users, quiz_name \in QuizNames, multiple_answers \in BOOLEAN :
    quizzes[ch] # NoSession =>
      StartQuizReply(ch, user, quiz_name, multiple_answers)
        = "A quiz is already running in this channel."

\* C4, amended: on a channel that has a Quiz, start_quiz answers that a quiz
\* is already running when the catalog holds the quiz name and "Quiz not found."
\* when it does not, and either way changes nothing; no step puts another Quiz
\* in the place of a channel's Quiz, and a Quiz is constructed only by a step
\* that registers it for a channel that had none.
C4_StartRefusedWhileRunning ==
  /\ [](\A ch \in Channels, user \in Users, quiz_name \in QuizNames, multiple_answers \in BOOLEAN :
          quizzes[ch] # NoSession =>
            StartQuizReply(ch, user, quiz_name, multiple_answers)
              = IF quiz_name \in DOMAIN quiz_data
                  THEN "A quiz is already running in this channel."
                  ELSE "Quiz not found.")
  /\ [][ /\ \A ch \in Channels, user \in Users, quiz_name \in QuizNames, multiple_answers \in BOOLEAN :
              quizzes[ch] # NoSession /\ StartQuiz(ch, user, quiz_name, multiple_answers)
                => UNCHANGED vars
         /\ \A ch \in Channels :
              quizzes[ch] # NoSession => quizzes'[ch] \in {quizzes[ch], NoSession}
         /\ sessions' # sessions /\ Len(sessions') # Len(sessions) =>
              /\ Len(sessions') = Len(sessions) + 1
              /\ \A sid \in SessionIds : sessions'[sid] = sessions[sid]
              /\ \E ch \in Channels : quizzes[ch] = NoSession /\ quizzes'[ch] = Len(sessions')
       ]_vars

\* a second start_quiz arrives while the first is still sending its question
C4_Witness ==
  \E ch \in Channels, p \in Procs :
    /\ quizzes[ch] # NoSession
    /\ procs[p].kind = "start_quiz" /\ procs[p].pc = "q_send" /\ procs[p].sid = quizzes[ch]
    /\ StartQuizReply(ch, "u2", "science", TRUE) = "A quiz is already running in this channel."

\* C5: an advance that brings a Quiz's question index to the number of its
\* questions announces the end and, once that is sent, its channel has no
\* Quiz in the registry; a next_question on a channel without a Quiz answers
\* that no quiz is running and changes nothing.
C5_EndRemovesSession ==
  /\ [](\A ch \in Channels, user \in Users :
          quizzes[ch] = NoSession =>
            NextQuestionReply(ch, user) = NoQuizRunning)
  /\ [][ /\ \A sid \in SessionIds :
              /\ sessions'[sid].current_question_index = sessions[sid].current_question_index + 1
              /\ sessions'[sid].current_question_index = Len(quiz_data[sessions[sid].quiz_name].questions)
              => /\ out'.reply = "The quiz has ended!"
                 /\ \E p \in Procs : Reaches(p, "end_send") /\ procs'[p].sid = sid
         /\ \A p \in Procs :
              Leaves(p, "end_send") =>
                /\ quizzes'[procs[p].ch] = NoSession
                /\ \A ch \in Channels : quizzes'[ch] # procs[p].sid
         /\ \A ch \in Channels, user \in Users :
              quizzes[ch] = NoSession /\ NextQuestion(ch, user) => UNCHANGED vars
       ]_vars

\* the last question was left behind and the channel's Quiz is gone
C5_Witness ==
  /\ out.op = "quiz_ended" /\ out.reply = ""
  /\ sessions[out.sid].current_question_index = Len(quiz_data[sessions[out.sid].quiz_name].questions)
  /\ sessions[out.sid].current_question_index = 2
  /\ \A ch \in Channels : quizzes[ch] = NoSession

\* C6: a click on a button of a Quiz that is no longer in the registry
\* changes no Quiz and is not acknowledged as a vote.
C6_NoVoteOnceRemoved ==
  [][ \A p \in Procs :
        Leaves(p, "defer") /\ ~Registered(procs[p].sid) =>
          /\ sessions' = sessions
          /\ out'.reply # "You voted for " \o procs[p].label
    ]_vars

\* C7: a next_question by a user who is not the Quiz's starter is answered
\* with the refusal and changes nothing (no Quiz, not the registry, no
\* message shown or sent); the coroutines that do advance a Quiz are its
\* starter's.
C7_OnlyStarterAdvances ==
  /\ [](\A ch \in Channels, user \in Users :
          quizzes[ch] # NoSession /\ user # sessions[quizzes[ch]].quiz_starter_id =>
            NextQuestionReply(ch, user) = "Only the quiz starter can move to the next question.")
  /\ [][ /\ \A ch \in Channels, user \in Users :
              /\ quizzes[ch] # NoSession
              /\ user # sessions[quizzes[ch]].quiz_starter_id
              /\ NextQuestion(ch, user)
              => UNCHANGED vars
         /\ \A p \in Procs :
              procs[p] = Idle /\ procs'[p].kind = "next_question" =>
                procs'[p].user = sessions[procs'[p].sid].quiz_starter_id
       ]_vars

\* a Quiz with a vote and a question message, and a user who did not start it
C7_Witness ==
  \E ch \in Channels, user \in Users :
    /\ quizzes[ch] # NoSession
    /\ user # sessions[quizzes[ch]].quiz_starter_id
    /\ sessions[quizzes[ch]].current_question_votes = 1
    /\ sessions[quizzes[ch]].last_message_id # NoMessage
    /\ NextQuestionReply(ch, user) = "Only the quiz starter can move to the next question."

\* C8: a start_quiz or upload_quiz of a user who is neither administrator
\* nor owner puts no Quiz in the registry and leaves the catalog as it is.
C8_AdminOnly ==
  [][ \A user \in Users :
        ~HasPermission(user, "administrator") /\ user # OwnerId =>
          /\ \A ch \in Channels, quiz_name \in QuizNames, multiple_answers \in BOOLEAN :
               StartQuiz(ch, user, quiz_name, multiple_answers) =>
                 quizzes' = quizzes /\ sessions' = sessions
          /\ \A att \in Attachments :
               UploadQuiz(user, att) => quiz_data' = quiz_data
    ]_vars

\* the names of a JSON object's items, and the value the last item of a name gives
Names(att) == {att.items[i][1] : i \in 1..Len(att.items)}
Given(att, n) ==
  att.items[CHOOSE i \in 1..Len(att.items) :
              /\ att.items[i][1] = n
              /\ \A j \in 1..Len(att.items) : att.items[j][1] = n => j <= i][2]

C10_RowsAreOptions ==
  [][ \A p \in Procs :
        Reaches(p, "res_send") =>
          LET q == sessions[procs'[p].sid]
              options == q.current_view.options
          IN /\ out'.op = "results"
             /\ Len(out'.rows) = Len(options)
             /\ \A i \in 1..Len(options) :
                  /\ out'.rows[i].option = DisplayOption(options[i])
                  /\ out'.rows[i].count = Get(q.answer_votes, options[i])
    ]_vars

\* the callbacks of Quiz sid that await the edit of its vote-counter message
Refreshing(sid) == {p \in Procs : procs[p].pc = "votes_edit" /\ procs[p].sid = sid}

\* C11: of every Quiz at most one edit of the vote-counter message is
\* awaited at any time.
C11_OneRefreshPending ==
  \A sid \in SessionIds : Cardinality(Refreshing(sid)) <= 1

\* C12: when send_question has set up a question (the coroutine awaits the
\* send of the question message), every option of that question has count
\* zero and no voter of the Quiz has a selected label.
C12_AdvanceResetsSelections ==
  [][ \A p \in Procs :
        Reaches(p, "q_send") =>
          LET q == sessions'[procs'[p].sid]
          IN /\ \A i \in 1..Len(q.answer_votes) : q.answer_votes[i].count = 0
             /\ \A u \in DOMAIN q.user_votes : q.user_votes[u] = {}
    ]_vars

\* the keys of a ledger, and the elements of a list
Keys(av) == {av[i].option : i \in 1..Len(av)}
Elements(options) == {options[i] : i \in 1..Len(options)}

\* C13: the keys of the vote counts of every Quiz are exactly the options
\* of its current question, and a click whose label is not one of them
\* leaves the Quiz as it is.
C13_KeysAreOptions ==
  /\ [](\A sid \in SessionIds :
          Keys(sessions[sid].answer_votes) = Elements(sessions[sid].current_view.options))
  /\ [][ \A p \in Procs :
           /\ Leaves(p, "defer")
           /\ procs[p].label \notin Elements(sessions[procs[p].sid].current_view.options)
           => sessions' = sessions
       ]_vars

\* the labels a voter has selected in a Quiz
Selected(q, u) == IF u \in DOMAIN q.user_votes THEN q.user_votes[u] ELSE {}

\* C14: with multiple answers, when a click has been recorded, a second
\* click of the same voter on the same label right after it gives the vote
\* counts, the total and the voter's selected labels the values they had
\* before the first.
C14_ToggleTwiceRestores ==
  [][ \A p \in Procs :
        Leaves(p, "defer") /\ sessions[procs[p].sid].allow_multiple_answers =>
          LET before == sessions[procs[p].sid]
              after  == RecordVote(sessions'[procs[p].sid], procs[p].user, procs[p].label)
          IN /\ after.answer_votes = before.answer_votes
             /\ after.current_question_votes = before.current_question_votes
             /\ Selected(after, procs[p].user) = Selected(before, procs[p].user)
    ]_vars

\* C15: when next_question resets the ledger of a question, the results
\* table it sent for that question shows every vote the ledger holds.
C15_NoVoteLost ==
  [][ \A p \in Procs :
        Leaves(p, "res_send") =>
          procs[p].rows = ResultTable(sessions[procs[p].sid].answer_votes)
    ]_vars

\* C16: whatever the fetch or the edit of the previous question message
\* raises, next_question goes on: the coroutine is not ended by it.
C16_DisableFailureNeverBlocks ==
  [][ \A p \in Procs :
        Leaves(p, "fetch") \/ Leaves(p, "edit") =>
          procs'[p].pc \in {"edit", "warn_send", "res_send"}
    ]_vars

\* C17: when the edit of the vote-counter message returns or raises, the
\* callback raises nothing, tells the voter the vote and leaves it recorded.
C17_RefreshFailureSwallowed ==
  [][ \A p \in Procs :
        Leaves(p, "votes_edit") =>
          /\ out'.reply = "You voted for " \o procs[p].label
          /\ sessions' = sessions
    ]_vars

\* C18: the question index of every Quiz lies between -1 and the number of
\* its quiz's questions, a Quiz whose index is that number is out of the
\* registry once the coroutine that ended it has sent the end message, and
\* no step makes an index smaller.
C18_IndexInRange ==
  /\ [](\A sid \in SessionIds :
          LET q == sessions[sid]
          IN /\ q.current_question_index >= -1
             /\ q.current_question_index <= NumQuestions(q.quiz_name)
             /\ q.current_question_index = NumQuestions(q.quiz_name) /\ Registered(sid)
                  => \E p \in Procs : procs[p].pc = "end_send" /\ procs[p].sid = sid)
  /\ [][ \A sid \in SessionIds :
           sessions'[sid].current_question_index >= sessions[sid].current_question_index
       ]_vars

\* C19: the deletion at the end of a quiz finds the channel's entry and the
\* entry is the Quiz that ended.
C19_EndRemovesOwnSession ==
  [][ \A p \in Procs :
        Leaves(p, "end_send") => quizzes[procs[p].ch] = procs[p].sid
    ]_vars

\* C20: a next_question that sends a results table sends the only one of
\* that question, and the question it leaves behind is the one whose results
\* it sent.
C20_ResultsOncePerQuestion ==
  [][ \A p \in Procs :
        /\ Reaches(p, "res_send") =>
             \A r \in Procs \ {p} :
               ~(procs[r].pc = "res_send" /\ procs[r].sid = procs'[p].sid
                   /\ procs[r].index = procs'[p].index)
        /\ Leaves(p, "res_send") =>
             procs[p].index = sessions[procs[p].sid].current_question_index
    ]_vars

====
